---- MODULE Spec2Model ----
(***************************************************************************)
(* Model of src/src/extract_deviations.py: extract_flight_deviations (the  *)
(* per-flight deviation analysis) and extract_traffic_deviations (the      *)
(* batch loop with its per-flight exception handlers).                     *)
(*                                                                         *)
(* A Flight is a record [flight_id, data]; data is a table, modelled as a  *)
(* function from timestamps (integer seconds) to rows [altitude, x], x     *)
(* being a lateral coordinate (the lateral distance of two rows is the     *)
(* absolute difference of their x).  An optional number is a tagged value: *)
(* Num(v), Python's None, or the float NaN.  A Flight that is None is a    *)
(* Flight without rows (IsNone).                                           *)
(***************************************************************************)
EXTENDS Integers, Sequences, FiniteSets, TLC

VARIABLES
    entry,             \* which function was called: "traffic" or "flight"
    flights,           \* the flights argument (sequence of analysed flights)
    context_traffic,   \* the context_traffic argument (set of Flights)
    params,            \* the keyword arguments given to the entry point
    pc,                \* position: "loop", "holes", "raised", "done", "aborted"
    i,                 \* index of the flight of the for loop of line 198
    h,                 \* index of the hole of the for loop of line 67
    list_dicts,        \* list_dicts of extract_flight_deviations
    cumul_deviations,  \* cumul_deviations of extract_traffic_deviations
    locals,            \* horizon / flight_interest of the last hole processed
    exc,               \* the exception in flight, None when there is none
    log,               \* what the except clauses printed
    result             \* the value returned by the entry point

vars == <<entry, flights, context_traffic, params, pc, i, h, list_dicts,
          cumul_deviations, locals, exc, log, result>>

None == [tag |-> "None", val |-> 0]
NaN == [tag |-> "NaN", val |-> 0]
Num(v) == [tag |-> "num", val |-> v]
IsNum(o) == o.tag = "num"

----------------------------------------------------------------------------
(* Bounds of the model *)

MaxFlights == 2
MaxHoles == 2

----------------------------------------------------------------------------
(* Program constants *)

DefaultMarginFl == 50
DefaultForwardTime == 20
MinHoleDuration == 120
MinNeighbourDuration == 2

----------------------------------------------------------------------------
(* The table / Flight primitives of the traffic library the code calls *)

MinOf(S) == CHOOSE m \in S : \A y \in S : m <= y
MaxOf(S) == 0 - MinOf({0 - y : y \in S})
Abs(n) == IF n < 0 THEN -n ELSE n

Start(f) == MinOf(DOMAIN f.data)
Stop(f) == MaxOf(DOMAIN f.data)
Duration(f) == Stop(f) - Start(f)
AltitudeMin(f) == MinOf({f.data[t].altitude : t \in DOMAIN f.data})
AltitudeMax(f) == MaxOf({f.data[t].altitude : t \in DOMAIN f.data})

\* A Flight built on the rows ts of f; it is None when no row is left.
Restrict(f, ts) == [flight_id |-> f.flight_id, data |-> [t \in ts |-> f.data[t]]]
IsNone(f) == DOMAIN f.data = {}

\* Flight.between(start, stop, strict): open bounds when strict.
Between(f, start, stop, strict) ==
    Restrict(f, {t \in DOMAIN f.data :
                    IF strict THEN start < t /\ t < stop
                    ELSE start <= t /\ t <= stop})

BeforeNonStrict(f, time) == Between(f, Start(f), time, FALSE)

\* Flight.before(time) is between(self.start, time) with strict bounds.
Before(f, time) == Between(f, Start(f), time, TRUE)

\* Flight.query on the altitude column.
QueryOutside(f, flmin, flmax) ==
    Restrict(f, {t \in DOMAIN f.data :
                    f.data[t].altitude > flmax \/ f.data[t].altitude < flmin})
QueryInside(f, flmin, flmax) ==
    Restrict(f, {t \in DOMAIN f.data :
                    flmin <= f.data[t].altitude /\ f.data[t].altitude <= flmax})

\* Linear interpolation between the rows of f around t, per column.
Interp(v0, v1, t0, t1, t) ==
    IF t0 = t1 THEN v0 ELSE v0 + ((v1 - v0) * (t - t0)) \div (t1 - t0)

InterpRow(f, t) ==
    LET t0 == MaxOf({u \in DOMAIN f.data : u <= t})
        t1 == MinOf({u \in DOMAIN f.data : u >= t})
    IN  [altitude |-> Interp(f.data[t0].altitude, f.data[t1].altitude, t0, t1, t),
         x |-> Num(Interp(f.data[t0].x.val, f.data[t1].x.val, t0, t1, t))]

\* Flight.resample("1s"): one row per second from start to stop.
Resample(f) ==
    [flight_id |-> f.flight_id,
     data |-> [t \in Start(f)..Stop(f) |-> InterpRow(f, t)]]

\* f1 & f2 is not None: the two flights overlap in time.
Overlap(f1, f2) == MaxOf({Start(f1), Start(f2)}) <= MinOf({Stop(f1), Stop(f2)})

Lateral(r1, r2) ==
    IF r1.x = NaN \/ r2.x = NaN THEN NaN ELSE Num(Abs(r1.x.val - r2.x.val))

\* Flight.distance(other): None when one flight has no row in the common
\* time range, else the rows of both joined on timestamp (maybe none).
Distance(f1, f2) ==
    LET start == MaxOf({Start(f1), Start(f2)})
        stop == MinOf({Stop(f1), Stop(f2)})
        g1 == Between(f1, start, stop, FALSE)
        g2 == Between(f2, start, stop, FALSE)
    IN  IF start > stop \/ IsNone(g1) \/ IsNone(g2)
        THEN [none |-> TRUE, lateral |-> [t \in {} |-> NaN]]
        ELSE [none |-> FALSE,
              lateral |-> [t \in DOMAIN g1.data \cap DOMAIN g2.data |->
                              Lateral(g1.data[t], g2.data[t])]]

\* Series.min() of the lateral column: NaN values are skipped, the minimum
\* of nothing is NaN.
LateralMin(df) ==
    LET vals == {df.lateral[t].val : t \in {u \in DOMAIN df.lateral : IsNum(df.lateral[u])}}
    IN  IF vals = {} THEN NaN ELSE Num(MinOf(vals))

\* df.loc[df.lateral == df.lateral.min()].timestamp: the timestamps of the
\* rows at the minimum (NaN equals nothing).
RowsAtMin(df) ==
    {t \in DOMAIN df.lateral : IsNum(df.lateral[t]) /\ df.lateral[t] = LateralMin(df)}

----------------------------------------------------------------------------
(* dist_lat_min and the selection of the closest neighbour *)

\* dist_lat_min(f1, f2): None without overlap; f1.distance(f2) being None
\* makes the subscript raise the TypeError the function catches (None).
dist_lat_min(f1, f2) ==
    IF ~Overlap(f1, f2) THEN None
    ELSE IF Distance(f1, f2).none THEN None
    ELSE LateralMin(Distance(f1, f2))

\* Python's a < b on the tuples (distance, flight_id): "TypeError" when None
\* is ordered against a float, else TRUE / FALSE.  Equal first items (two
\* None, two equal numbers) pass the comparison to the flight_id.
TupleLess(a, b) ==
    IF a[1] = b[1] /\ a[1] # NaN THEN (IF a[2] < b[2] THEN "TRUE" ELSE "FALSE")
    ELSE IF a[1] = None \/ b[1] = None THEN "TypeError"
    ELSE IF a[1] = NaN \/ b[1] = NaN THEN "FALSE"
    ELSE IF a[1].val < b[1].val THEN "TRUE" ELSE "FALSE"

\* The flight_ids of a set of flights in iteration (sorted) order.
RECURSIVE SortedIds(_)
SortedIds(ids) ==
    IF ids = {} THEN << >>
    ELSE <<MinOf(ids)>> \o SortedIds(ids \ {MinOf(ids)})

\* Python's min() over the items from position k on, best being the minimum
\* so far: an item replaces it when item < best.
RECURSIVE PyMin(_, _, _)
PyMin(items, k, best) ==
    IF k > Len(items) THEN [raised |-> "None", best |-> best]
    ELSE LET lt == TupleLess(items[k], best)
         IN  IF lt = "TypeError" THEN [raised |-> "TypeError", best |-> best]
             ELSE PyMin(items, k + 1, IF lt = "TRUE" THEN items[k] ELSE best)

----------------------------------------------------------------------------
(* The body of the for loop over the holes of one flight (lines 67-156) *)

\* The hole between two timestamps of the flight, as flight - aligned gives it.
HoleOf(flight, iv) == Between(flight, iv.start, iv.stop, FALSE)

\* hole.summary(...) merged with the four None fields (lines 72-81).  The
\* column min_f_time, set on some rows only, is None on the others.
TempDict(hole) ==
    [flight_id |-> hole.flight_id, start |-> Start(hole), stop |-> Stop(hole),
     duration |-> Duration(hole),
     min_f_dist |-> None, min_fp_dist |-> None, min_fp_time |-> None,
     neighbour_id |-> None, min_f_time |-> None]

\* The condition of lines 82-88.
Qualified(flight, hole, margin_fl) ==
    /\ Duration(hole) > MinHoleDuration
    /\ AltitudeMax(hole) - AltitudeMin(hole) < margin_fl
    /\ Start(hole) > Start(flight)
    /\ Stop(hole) < Stop(flight)

\* Lines 95-98.
InitialHorizon(flight, hole, forward_time) ==
    MinOf({Start(hole) + 60 * forward_time, Stop(flight)})

\* As ResolveHorizon, but the horizon is not moved to the end of the
\* truncated flight_interest.
ResolveHorizonKeepsHorizon(flight, hole, flmin, flmax, forward_time) ==
    LET horizon == InitialHorizon(flight, hole, forward_time)
        flight_interest == Between(flight, Start(hole), horizon, TRUE)
        offlimits == QueryOutside(flight_interest, flmin, flmax)
    IN  IF IsNone(flight_interest)
        THEN [raised |-> "AssertionError", horizon |-> horizon,
              flight_interest |-> flight_interest]
        ELSE IF IsNone(offlimits)
        THEN [raised |-> "None", horizon |-> horizon,
              flight_interest |-> flight_interest]
        ELSE [raised |-> "None", horizon |-> horizon,
              flight_interest |->
                  Restrict(flight_interest,
                           {t \in DOMAIN flight_interest.data : t <= Start(offlimits)})]

\* Lines 99-107: flight_interest and horizon after the altitude check.  The
\* first row off limits ends flight_interest and becomes the horizon.
ResolveHorizon(flight, hole, flmin, flmax, forward_time) ==
    LET horizon == InitialHorizon(flight, hole, forward_time)
        flight_interest == Between(flight, Start(hole), horizon, TRUE)
    IN  IF IsNone(flight_interest)
        THEN [raised |-> "AssertionError", horizon |-> horizon,
              flight_interest |-> flight_interest]
        ELSE LET offlimits == QueryOutside(flight_interest, flmin, flmax)
             IN  IF IsNone(offlimits)
                 THEN [raised |-> "None", horizon |-> horizon,
                       flight_interest |-> flight_interest]
                 ELSE LET istop == Start(offlimits)
                          cut == Restrict(flight_interest,
                                   {t \in DOMAIN flight_interest.data : t <= istop})
                      IN  [raised |-> "None", horizon |-> Stop(cut),
                           flight_interest |-> cut]

\* Lines 110-121: the portions of the other flights of the context inside
\* the time window and the altitude band that last more than 2 seconds.
Neighbours(context, flight, start, horizon, flmin, flmax) ==
    LET others == {f \in context : f.flight_id # flight.flight_id}
        inwindow == {Between(f, start, horizon, FALSE) : f \in others}
        inband == {QueryInside(f, flmin, flmax) : f \in {g \in inwindow : ~IsNone(g)}}
    IN  {f \in inband : ~IsNone(f) /\ Duration(f) > MinNeighbourDuration}

\* neighbours[flight_id]
ById(neighbours, id) == CHOOSE f \in neighbours : f.flight_id = id

\* predict_fp(flight, flightplan, start, stop, minutes, min_distance): the
\* flight continued on its plan from start for the given minutes, or the
\* failure the plan makes the predictor raise.
predict_fp(flight, flightplan, start, stop, minutes) ==
    [raised |-> flightplan.pred,
     fp |-> [flight_id |-> flight.flight_id,
             data |-> [t \in start..(start + 60 * minutes) |->
                          [altitude |-> flight.data[start].altitude,
                           x |-> Num(flightplan.x)]]]]

\* What one iteration does: "append" rec to list_dicts, "continue" without
\* a record, or "raise" exc out of extract_flight_deviations.
Outcome(kind, rec, e, qualified, horizon, interest) ==
    [kind |-> kind, rec |-> rec, exc |-> e, qualified |-> qualified,
     horizon |-> horizon, interest |-> interest]

\* Lines 142-147: the fields of the actual separation.
ActualWithoutNeighbourId(temp_dict, idmin_f, min_f, df_dist) ==
    [temp_dict EXCEPT !.min_f_dist = min_f,
                      !.min_f_time = Num(MinOf(RowsAtMin(df_dist)))]

Actual(temp_dict, idmin_f, min_f, df_dist) ==
    [temp_dict EXCEPT !.neighbour_id = Num(idmin_f),
                      !.min_f_dist = min_f,
                      !.min_f_time = Num(MinOf(RowsAtMin(df_dist)))]

\* Lines 138-154: the closest neighbour, actual and predicted separation.
Score(temp_dict, flight_interest, neighbours, pred_possible, pred_fp, horizon) ==
    LET ids == SortedIds({f.flight_id : f \in neighbours})
        items == [k \in 1..Len(ids) |->
                     <<dist_lat_min(flight_interest, ById(neighbours, ids[k])), ids[k]>>]
        m == PyMin(items, 2, items[1])
        min_f == m.best[1]
        idmin_f == m.best[2]
        df_dist == Distance(flight_interest, ById(neighbours, idmin_f))
        df_dist_fp == Distance(pred_fp, ById(neighbours, idmin_f))
        interest == DOMAIN flight_interest.data
        actual == Actual(temp_dict, idmin_f, min_f, df_dist)
        raise(e) == Outcome("raise", temp_dict, e, TRUE, horizon, interest)
    IN  IF m.raised # "None" THEN raise(m.raised)
        ELSE IF df_dist.none THEN raise("AttributeError")
        ELSE IF RowsAtMin(df_dist) = {} THEN raise("IndexError")
        ELSE IF ~pred_possible THEN Outcome("append", actual, "None", TRUE, horizon, interest)
        ELSE IF df_dist_fp.none THEN raise("AttributeError")
        ELSE IF RowsAtMin(df_dist_fp) = {} THEN raise("IndexError")
        ELSE Outcome("append",
                     [actual EXCEPT !.min_fp_dist = LateralMin(df_dist_fp),
                                    !.min_fp_time = Num(MinOf(RowsAtMin(df_dist_fp)))],
                     "None", TRUE, horizon, interest)

\* Lines 72-156 for the hole iv of flight0.  The code rebinds flight and hole
\* to their resampled versions; resampling keeps start and stop, so the
\* rebinding changes nothing for the holes that follow.
HoleBody(flight0, flightplan, iv, context, margin_fl, forward_time) ==
    LET hole0 == HoleOf(flight0, iv)
        temp_dict == TempDict(hole0)
    IN  IF ~Qualified(flight0, hole0, margin_fl)
        THEN Outcome("append", temp_dict, "None", FALSE, 0, {})
        ELSE
        LET flight == Resample(flight0)
            hole == Resample(hole0)
            flmin == AltitudeMin(hole) - margin_fl
            flmax == AltitudeMax(hole) + margin_fl
            r == ResolveHorizon(flight, hole, flmin, flmax, forward_time)
            interest == DOMAIN r.flight_interest.data
            neighbours == Neighbours(context, flight, Start(hole), r.horizon, flmin, flmax)
            pred_possible == ~IsNone(Before(flight, Start(hole)))
            pred == predict_fp(flight, flightplan, Start(hole), Stop(hole), forward_time)
        IN  IF r.raised # "None"
            THEN Outcome("raise", temp_dict, r.raised, TRUE, r.horizon, interest)
            ELSE IF neighbours = {} /\ ~pred_possible
            THEN Outcome("continue", temp_dict, "None", TRUE, r.horizon, interest)
            ELSE IF pred_possible /\ pred.raised # "None"
            THEN Outcome("raise", temp_dict, pred.raised, TRUE, r.horizon, interest)
            ELSE IF neighbours = {}
            THEN Outcome("append", temp_dict, "None", TRUE, r.horizon, interest)
            ELSE Score(temp_dict, r.flight_interest, neighbours, pred_possible,
                       pred.fp, r.horizon)

----------------------------------------------------------------------------
(* Lines 157-164: from list_dicts to the table the function returns *)

DifferenceSwapped(rec) ==
    IF IsNum(rec.min_f_dist) /\ IsNum(rec.min_fp_dist)
    THEN Num(rec.min_fp_dist.val - rec.min_f_dist.val)
    ELSE None

\* Lines 159-161: the series subtraction is null where an operand is null.
Difference(rec) ==
    IF IsNum(rec.min_f_dist) /\ IsNum(rec.min_fp_dist)
    THEN Num(rec.min_f_dist.val - rec.min_fp_dist.val)
    ELSE None

WithDifference(rec) ==
    [flight_id |-> rec.flight_id, start |-> rec.start, stop |-> rec.stop,
     duration |-> rec.duration, min_f_dist |-> rec.min_f_dist,
     min_fp_dist |-> rec.min_fp_dist, min_fp_time |-> rec.min_fp_time,
     neighbour_id |-> rec.neighbour_id, min_f_time |-> rec.min_f_time,
     difference |-> Difference(rec)]

KeepsEveryRow(rec) == TRUE

\* Line 163: deviations[deviations.min_f_dist != 0.0]
NotZeroDistance(rec) == rec.min_f_dist # Num(0)

\* The return value: [none |-> TRUE] for None, else the table (maybe empty).
FlightTable(dicts) ==
    IF Len(dicts) = 0 THEN [none |-> TRUE, rows |-> << >>]
    ELSE [none |-> FALSE,
          rows |-> SelectSeq([k \in 1..Len(dicts) |-> WithDifference(dicts[k])],
                             NotZeroDistance)]

\* pd.concat(cumul_deviations, ignore_index=True)
RECURSIVE Concat(_)
Concat(tables) ==
    IF tables = << >> THEN << >> ELSE Head(tables) \o Concat(Tail(tables))


\* extract_flight_deviations as a whole (lines 66-164): the holes from the
\* k-th on, dicts being list_dicts so far.
RECURSIVE RunHoles(_, _, _, _, _)
RunHoles(flight, context, args, k, dicts) ==
    IF k > Len(flight.holes) THEN [raised |-> "None", dicts |-> dicts]
    ELSE LET o == HoleBody(flight, flight.flightplan, flight.holes[k], context,
                           args.margin_fl, args.forward_time)
         IN  IF o.kind = "raise" THEN [raised |-> o.exc, dicts |-> dicts]
             ELSE RunHoles(flight, context, args, k + 1,
                           IF o.kind = "append" THEN Append(dicts, o.rec) ELSE dicts)

RunFlight(flight, context, args) ==
    IF ~flight.flightplan.found THEN [raised |-> "TypeError", dicts |-> << >>]
    ELSE RunHoles(flight, context, args, 1, << >>)

----------------------------------------------------------------------------
(* The inputs: analysed flights, their plans and holes, context traffic *)

\* Timestamps of the rows of an analysed flight before resampling.
RawTimes == {0, 1, 100, 190, 220, 230, 240, 279, 280, 300, 399, 400}

Profiles == {"level", "climb", "jump", "spread"}

\* Altitude (ft) of an analysed flight: level at 34000 ft, climbing out of
\* the band after 300 s, jumping out of it at 280 s, or drifting by 60 ft.
ProfileAltitude(profile, t) ==
    CASE profile = "level" -> 34000
      [] profile = "climb" -> IF t <= 300 THEN 34000 ELSE 34000 + 2 * (t - 300)
      [] profile = "jump" -> IF t < 280 THEN 34000 ELSE 34100
      [] profile = "spread" -> IF t < 190 THEN 34000 ELSE 34060

\* Lateral position of an analysed flight: on the route but around 190 s.
ProfileX(t) == IF t = 190 THEN 4 ELSE 0

Interval(a, b) == [start |-> a, stop |-> b]

\* The intervals the alignment primitive may leave as holes.
HoleIntervals ==
    {Interval(0, 190), Interval(1, 190), Interval(100, 190), Interval(100, 220),
     Interval(100, 230), Interval(240, 279), Interval(240, 399), Interval(240, 400),
     Interval(300, 399)}

\* flight - flight.aligned_on_navpoint(...): disjoint holes in time order.
HoleLists(intervals, n) ==
    {s \in UNION {[1..k -> intervals] : k \in 0..n} :
        \A k \in 1..(Len(s) - 1) : s[k].stop < s[k + 1].start}

\* What metadata_simple[flight_id] holds for the flight: whether a plan is
\* found, where the route lies, and what the predictor does with the plan.
Plan(found, pred) == [found |-> found, x |-> 0, pred |-> pred]

AnalysedFlight(id, profile, holes, flightplan) ==
    [flight_id |-> id,
     data |-> [t \in RawTimes |->
                  [altitude |-> ProfileAltitude(profile, t), x |-> Num(ProfileX(t))]],
     holes |-> holes,
     flightplan |-> flightplan]

\* A flight of the context: the same row at each of its timestamps.
ContextFlight(id, times, altitude, x) ==
    [flight_id |-> id, data |-> [t \in times |-> [altitude |-> altitude, x |-> x]]]

Every10s(from, to) == {t \in from..to : t % 10 = 0}

Passing == ContextFlight(11, Every10s(90, 310), 34000, Num(5))
Duplicate == ContextFlight(12, {150, 200, 250}, 34010, Num(0))
Above == ContextFlight(13, {100, 150, 200, 250, 300}, 36000, Num(1))
Brief == ContextFlight(14, {150, 151, 152}, 34000, Num(7))
NoPosition == ContextFlight(15, {120, 130, 140, 150}, 34000, NaN)
Sparse == ContextFlight(16, {100, 240, 400}, 34000, Num(3))
Itself == ContextFlight(1, {100, 200, 300}, 34000, Num(0))

CaughtWithoutAttributeError == {"AssertionError", "TypeError"}

\* The exceptions of the except clauses of lines 207-212.
Caught == {"AssertionError", "TypeError", "AttributeError"}

\* extract_traffic_deviations passes no keyword to extract_flight_deviations
\* (lines 200-204), which then runs on its defaults (lines 48-51).
Args ==
    IF entry = "flight" THEN params
    ELSE [margin_fl |-> DefaultMarginFl, forward_time |-> DefaultForwardTime]

----------------------------------------------------------------------------
(* Initial states *)

InitCommon ==
    /\ i = 1
    /\ h = 1
    /\ list_dicts = << >>
    /\ cumul_deviations = << >>
    /\ locals = [flight |-> 0, hole |-> 0, qualified |-> FALSE, horizon |-> 0,
                 interest |-> {}, kind |-> "None"]
    /\ exc = "None"
    /\ log = << >>
    /\ result = [none |-> TRUE, rows |-> << >>]

\* One call of extract_flight_deviations(flight, flightplan, context, ...).
FlightShapes ==
    {AnalysedFlight(1, p, hs, Plan(TRUE, "None")) :
        p \in Profiles, hs \in HoleLists(HoleIntervals, MaxHoles)}
    \cup {AnalysedFlight(1, "level", hs, Plan(TRUE, "AssertionError")) :
            hs \in HoleLists(HoleIntervals, MaxHoles)}

FlightContexts ==
    {{}, {Passing}, {Duplicate}, {Passing, Duplicate}, {Above, Brief}, {NoPosition},
     {Passing, Sparse}, {Itself, Passing}}

FlightParams ==
    {[margin_fl |-> DefaultMarginFl, forward_time |-> DefaultForwardTime],
     [margin_fl |-> DefaultMarginFl, forward_time |-> 3]}

InitFlight ==
    /\ entry = "flight"
    /\ \E f \in FlightShapes : flights = <<f>>
    /\ context_traffic \in FlightContexts
    /\ params \in FlightParams
    /\ pc = "holes"
    /\ InitCommon

\* One call of extract_traffic_deviations(flights, metadata, context, ...).
BatchShapes(id) ==
    {AnalysedFlight(id, "level", hs, Plan(TRUE, "None")) :
        hs \in {<<Interval(100, 230)>>, <<Interval(100, 190)>>,
                <<Interval(100, 230), Interval(240, 399)>>}}
    \cup {AnalysedFlight(id, "level", <<Interval(100, 230)>>, plan) :
            plan \in {Plan(TRUE, "TypeError"), Plan(FALSE, "None")}}

BatchContexts == {{Passing}, {Duplicate}, {NoPosition}, {Sparse}}

BatchParams ==
    {[margin_fl |-> DefaultMarginFl, forward_time |-> DefaultForwardTime],
     [margin_fl |-> 100, forward_time |-> 1]}

InitTraffic ==
    /\ entry = "traffic"
    /\ \E n \in 0..MaxFlights :
          flights \in {s \in [1..n -> UNION {BatchShapes(id) : id \in 1..n}] :
                          \A k \in 1..n : s[k].flight_id = k}
    /\ context_traffic \in BatchContexts
    /\ params \in BatchParams
    /\ pc = "loop"
    /\ InitCommon

----------------------------------------------------------------------------
(* extract_flight_deviations, one step per iteration of its for loop *)

\* Line 67 with no plan: aligned_on_navpoint(None) cannot iterate the plan.
NoPlan ==
    /\ pc = "holes"
    /\ ~flights[i].flightplan.found
    /\ pc' = "raised"
    /\ exc' = "TypeError"
    /\ UNCHANGED <<entry, flights, context_traffic, params, i, h, list_dicts,
                   cumul_deviations, locals, log, result>>

\* Lines 67-156 for the next hole.
ProcessHole ==
    /\ pc = "holes"
    /\ flights[i].flightplan.found
    /\ h <= Len(flights[i].holes)
    /\ \E o \in {HoleBody(flights[i], flights[i].flightplan, flights[i].holes[h],
                         context_traffic, Args.margin_fl, Args.forward_time)} :
           /\ locals' = [flight |-> i, hole |-> h, qualified |-> o.qualified,
                         horizon |-> o.horizon, interest |-> o.interest,
                         kind |-> o.kind]
           /\ list_dicts' = IF o.kind = "append" THEN Append(list_dicts, o.rec)
                            ELSE list_dicts
           /\ pc' = IF o.kind = "raise" THEN "raised" ELSE "holes"
           /\ exc' = o.exc
           /\ h' = IF o.kind = "raise" THEN h ELSE h + 1
    /\ UNCHANGED <<entry, flights, context_traffic, params, i, cumul_deviations,
                   log, result>>

\* Lines 157-164, then lines 205-206 when called from the batch.
ReturnFlight ==
    /\ pc = "holes"
    /\ flights[i].flightplan.found
    /\ h > Len(flights[i].holes)
    /\ LET df == FlightTable(list_dicts)
       IN  IF entry = "flight"
           THEN /\ result' = df
                /\ pc' = "done"
                /\ UNCHANGED <<i, h, list_dicts, cumul_deviations>>
           ELSE /\ cumul_deviations' = IF df.none THEN cumul_deviations
                                       ELSE Append(cumul_deviations, df.rows)
                /\ i' = i + 1
                /\ h' = 1
                /\ list_dicts' = << >>
                /\ pc' = "loop"
                /\ UNCHANGED result
    /\ UNCHANGED <<entry, flights, context_traffic, params, locals, exc, log>>

----------------------------------------------------------------------------
(* extract_traffic_deviations *)

\* Lines 198-204: the next flight enters extract_flight_deviations.
CallFlight ==
    /\ pc = "loop"
    /\ i <= Len(flights)
    /\ pc' = "holes"
    /\ h' = 1
    /\ list_dicts' = << >>
    /\ UNCHANGED <<entry, flights, context_traffic, params, i, cumul_deviations,
                   locals, exc, log, result>>

\* As CatchFailure, but the records gathered before the failure are kept.
CatchFailureKeepsRecords ==
    /\ pc = "raised"
    /\ entry = "traffic"
    /\ exc \in Caught
    /\ log' = Append(log, [flight_id |-> flights[i].flight_id, kind |-> exc])
    /\ exc' = "None"
    /\ cumul_deviations' = IF list_dicts = << >> THEN cumul_deviations
                           ELSE Append(cumul_deviations, FlightTable(list_dicts).rows)
    /\ list_dicts' = << >>
    /\ h' = 1
    /\ i' = i + 1
    /\ pc' = "loop"
    /\ UNCHANGED <<entry, flights, context_traffic, params, locals, result>>

\* Lines 207-212: the three except clauses print and the loop goes on.
CatchFailure ==
    /\ pc = "raised"
    /\ entry = "traffic"
    /\ exc \in Caught
    /\ log' = Append(log, [flight_id |-> flights[i].flight_id, kind |-> exc])
    /\ exc' = "None"
    /\ list_dicts' = << >>
    /\ h' = 1
    /\ i' = i + 1
    /\ pc' = "loop"
    /\ UNCHANGED <<entry, flights, context_traffic, params, cumul_deviations,
                   locals, result>>

\* No except clause matches (or there is none): the exception leaves the
\* entry point and nothing is returned.
Propagate ==
    /\ pc = "raised"
    /\ entry = "flight" \/ exc \notin Caught
    /\ pc' = "aborted"
    /\ UNCHANGED <<entry, flights, context_traffic, params, i, h, list_dicts,
                   cumul_deviations, locals, exc, log, result>>

\* Lines 213-216.
ReturnTraffic ==
    /\ pc = "loop"
    /\ i > Len(flights)
    /\ result' = IF cumul_deviations = << >> THEN [none |-> TRUE, rows |-> << >>]
                 ELSE [none |-> FALSE, rows |-> Concat(cumul_deviations)]
    /\ pc' = "done"
    /\ UNCHANGED <<entry, flights, context_traffic, params, i, h, list_dicts,
                   cumul_deviations, locals, exc, log>>

NextFlight == ProcessHole \/ ReturnFlight \/ Propagate

Next == CallFlight \/ NoPlan \/ ProcessHole \/ ReturnFlight \/ CatchFailure
        \/ Propagate \/ ReturnTraffic

SpecFlight == InitFlight /\ [][NextFlight]_vars

Spec == InitTraffic /\ [][Next]_vars

----------------------------------------------------------------------------
(* Notions the properties below are stated with *)

Last(s) == s[Len(s)]
HandledKinds == {"AssertionError", "TypeError", "AttributeError"}
IsNullDistance(rec) == rec.min_f_dist = None
RowIsOf(row, k, iv) == row.flight_id = k /\ row.start = iv.start /\ row.stop = iv.stop

\* The rows a flight contributes when its analysis, run with args, succeeds.
RowsOf(flight, args) ==
    LET r == RunFlight(flight, context_traffic, args)
    IN  IF r.raised = "None" THEN FlightTable(r.dicts).rows ELSE << >>

\* The records of a flight before the exclusion of the zero distances.
DictsOf(flight, args) ==
    LET r == RunFlight(flight, context_traffic, args)
    IN  IF r.raised = "None" THEN [k \in 1..Len(r.dicts) |-> WithDifference(r.dicts[k])]
        ELSE << >>

Failed == {log[k].flight_id : k \in 1..Len(log)}

\* The hole the last iteration was about, its flight, and the window the
\* properties measure the code's horizon against.
LastFlight == flights[locals.flight]
LastHole == HoleOf(LastFlight, LastFlight.holes[locals.hole])
LastNominalHorizon ==
    IF Start(LastHole) + 60 * Args.forward_time < Stop(LastFlight)
    THEN Start(LastHole) + 60 * Args.forward_time ELSE Stop(LastFlight)
OffBand(t) ==
    LET alt == InterpRow(LastFlight, t).altitude
    IN  \/ alt > AltitudeMax(LastHole) + Args.margin_fl
        \/ alt < AltitudeMin(LastHole) - Args.margin_fl

----------------------------------------------------------------------------
(* C1 *)

----------------------------------------------------------------------------
(* C2 *)

\* C2 as stated: no failure of the analysis of a flight, of whatever kind,
\* makes extract_traffic_deviations stop before the end of the flight list.
C2_NoFailureAbortsBatch == pc # "aborted"

\* C2 amended: a failure of kind AssertionError, TypeError or AttributeError
\* never aborts the batch, and the table returned holds, in flight order,
\* the rows of every flight whose analysis succeeded.
C2_CaughtFailureIsIsolated ==
    /\ pc = "aborted" => exc \notin HandledKinds
    /\ pc = "done" =>
          result.rows = Concat([k \in 1..Len(flights) |-> RowsOf(flights[k], Args)])

\* A batch that returned after a flight failed, with rows of a later flight.
C2_Witness ==
    /\ pc = "done"
    /\ \E k \in 1..Len(log) : \E n \in 1..Len(result.rows) :
          result.rows[n].flight_id > log[k].flight_id

----------------------------------------------------------------------------
(* C3 *)

\* C3: no table gathered by the batch and no table it returns has a row with
\* min_f_dist = 0, and the rows with a null min_f_dist are all kept.
C3_NoZeroDistanceRecord ==
    /\ \A t \in 1..Len(cumul_deviations) : \A n \in 1..Len(cumul_deviations[t]) :
          cumul_deviations[t][n].min_f_dist # Num(0)
    /\ pc = "done" =>
          /\ \A n \in 1..Len(result.rows) : result.rows[n].min_f_dist # Num(0)
          /\ SelectSeq(result.rows, IsNullDistance)
             = SelectSeq(Concat([k \in 1..Len(flights) |-> DictsOf(flights[k], Args)]),
                         IsNullDistance)

\* A batch where a record at distance 0 was dropped and a null one kept.
C3_Witness ==
    /\ pc = "done"
    /\ \E n \in 1..Len(result.rows) : result.rows[n].min_f_dist = None
    /\ \E k \in 1..Len(flights) :
          LET d == DictsOf(flights[k], Args)
          IN  \E n \in 1..Len(d) : d[n].min_f_dist = Num(0)

----------------------------------------------------------------------------
(* C4 *)

\* C4: in the table returned, difference is non-null exactly when min_f_dist
\* and min_fp_dist both are, and it then equals min_f_dist - min_fp_dist.
C4_DifferenceIsSubtraction ==
    pc = "done" =>
        \A n \in 1..Len(result.rows) :
            LET r == result.rows[n]
            IN  /\ r.difference # None <=> (r.min_f_dist # None /\ r.min_fp_dist # None)
                /\ r.difference # None =>
                      r.difference = Num(r.min_f_dist.val - r.min_fp_dist.val)

\* A table with a row whose difference is computed and a row with an actual
\* distance but no predicted one.
C4_Witness ==
    /\ pc = "done"
    /\ \E n \in 1..Len(result.rows) : IsNum(result.rows[n].difference)
    /\ \E n \in 1..Len(result.rows) :
          IsNum(result.rows[n].min_f_dist) /\ result.rows[n].min_fp_dist = None

----------------------------------------------------------------------------
(* C5 *)

\* The horizon and flight_interest of the last hole against the first
\* resampled point off the altitude band among the timestamps `window`.
TruncatedAtFirstOffBand(window) ==
    LET off == {t \in window : OffBand(t)}
    IN  IF off # {}
        THEN /\ locals.horizon = MinOf(off)
             /\ MinOf(off) \in locals.interest
             /\ \A t \in locals.interest : t <= MinOf(off)
        ELSE /\ locals.horizon = LastNominalHorizon
             /\ locals.interest
                = {t \in Start(LastFlight)..Stop(LastFlight) :
                      Start(LastHole) < t /\ t < LastNominalHorizon}

HorizonResolved == locals.hole > 0 /\ locals.qualified /\ locals.interest # {}

\* C5 as stated: the first point out of the band is looked for in the closed
\* window [hole.start, horizon].
C5_TruncationOnClosedWindow ==
    HorizonResolved =>
        TruncatedAtFirstOffBand(Start(LastHole)..LastNominalHorizon)

\* C5 amended: the first point out of the band is looked for strictly
\* between hole.start and the nominal horizon; the resolved horizon is its
\* timestamp, flight_interest holds it and nothing later; without such a
\* point the horizon and flight_interest are as first computed.
C5_TruncationInsideWindow ==
    HorizonResolved =>
        TruncatedAtFirstOffBand((Start(LastHole) + 1)..(LastNominalHorizon - 1))

\* A qualified hole whose horizon was moved to the first point off the band.
C5_Witness ==
    /\ HorizonResolved
    /\ locals.horizon < LastNominalHorizon
    /\ OffBand(locals.horizon)

----------------------------------------------------------------------------
(* C6 *)

\* C6: a record without neighbour_id has no distance at all, and the record
\* just appended, when it has an actual distance, has its min_f_time between
\* hole.start and the resolved horizon of its hole.
C6_NeighbourAndTimeWindow ==
    /\ \A n \in 1..Len(list_dicts) :
          list_dicts[n].neighbour_id = None =>
              list_dicts[n].min_f_dist = None /\ list_dicts[n].min_fp_dist = None
    /\ \A n \in 1..Len(result.rows) :
          result.rows[n].neighbour_id = None =>
              result.rows[n].min_f_dist = None /\ result.rows[n].min_fp_dist = None
    /\ (locals.kind = "append" /\ Last(list_dicts).min_f_dist # None) =>
          /\ IsNum(Last(list_dicts).min_f_time)
          /\ Last(list_dicts).start <= Last(list_dicts).min_f_time.val
          /\ Last(list_dicts).min_f_time.val <= locals.horizon

\* A record with an actual distance, appended for a hole whose horizon was
\* truncated.
C6_Witness ==
    /\ locals.kind = "append"
    /\ IsNum(Last(list_dicts).min_f_dist)
    /\ locals.horizon < LastNominalHorizon

----------------------------------------------------------------------------
(* C7 *)

\* The conclusion of C7 for the hole of the last iteration: a record with
\* the actual separation and its neighbour, nothing predicted, which the
\* table keeps with a null difference.
ActualOnlyRecord ==
    /\ locals.kind = "append"
    /\ IsNum(Last(list_dicts).min_f_dist)
    /\ IsNum(Last(list_dicts).neighbour_id)
    /\ Last(list_dicts).min_fp_dist = None
    /\ Last(list_dicts).min_fp_time = None
    /\ Difference(Last(list_dicts)) = None
    /\ NotZeroDistance(Last(list_dicts))

\* The scenario of C7 but for the baseline: a level hole of more than 120 s
\* and one context flight selected as neighbour, at a lateral distance that
\* is defined and not zero.
LevelHoleWithOneNeighbour ==
    /\ locals.hole > 0
    /\ Duration(LastHole) > MinHoleDuration
    /\ AltitudeMax(LastHole) - AltitudeMin(LastHole) < Args.margin_fl
    /\ LET flight == Resample(LastFlight)
           flmin == AltitudeMin(LastHole) - Args.margin_fl
           flmax == AltitudeMax(LastHole) + Args.margin_fl
           r == ResolveHorizon(flight, LastHole, flmin, flmax, Args.forward_time)
           ns == Neighbours(context_traffic, flight, Start(LastHole), r.horizon,
                            flmin, flmax)
       IN  /\ r.raised = "None"
           /\ Cardinality(ns) = 1
           /\ \A n \in ns :
                 /\ IsNum(dist_lat_min(r.flight_interest, n))
                 /\ dist_lat_min(r.flight_interest, n) # Num(0)

\* C7 as stated: the flight has no row strictly before hole.start.
C7_NoRowBeforeHole ==
    (LevelHoleWithOneNeighbour
        /\ \A t \in DOMAIN LastFlight.data : ~(t < Start(LastHole)))
    => ActualOnlyRecord

\* C7 amended: the hole starts after the flight does and ends before it, and
\* the resampled flight has no row strictly between flight.start and
\* hole.start (the hole starts at most 1 s after the flight).
C7_NoRowBetweenStartAndHole ==
    (LevelHoleWithOneNeighbour
        /\ Start(LastHole) > Start(LastFlight)
        /\ Stop(LastHole) < Stop(LastFlight)
        /\ \A t \in Start(LastFlight)..Stop(LastFlight) :
              ~(Start(LastFlight) < t /\ t < Start(LastHole)))
    => ActualOnlyRecord

\* The hole from 1 s to 190 s with the passing flight as its neighbour.
C7_Witness ==
    /\ LevelHoleWithOneNeighbour
    /\ Start(LastHole) = Start(LastFlight) + 1
    /\ ActualOnlyRecord

----------------------------------------------------------------------------
(* C8 *)

\* C8: the batch returns None exactly when no flight contributed a record,
\* else the concatenation of the tables of the flights.
C8_NoneIffNoRecord ==
    pc = "done" =>
        /\ result.none <=> Concat(cumul_deviations) = << >>
        /\ ~result.none => result.rows = Concat(cumul_deviations)

----------------------------------------------------------------------------
(* C9 *)

\* C9: the table the batch returns is the concatenation, in flight order, of
\* the tables of extract_flight_deviations run with the parameters the batch
\* was given.
C9_BatchUsesGivenParameters ==
    pc = "done" =>
        result.rows = Concat([k \in 1..Len(flights) |-> RowsOf(flights[k], params)])

----------------------------------------------------------------------------
(* C10 *)

\* C10: a flight whose analysis raised a caught failure has no row in what
\* the batch gathered or returns, and catching the failure leaves the tables
\* gathered for the earlier flights as they were.
C10_FailedFlightLeavesNoRecord ==
    /\ [](\A t \in 1..Len(cumul_deviations) : \A n \in 1..Len(cumul_deviations[t]) :
             cumul_deviations[t][n].flight_id \notin Failed)
    /\ [](\A n \in 1..Len(result.rows) : result.rows[n].flight_id \notin Failed)
    /\ [][(pc = "raised" /\ exc \in HandledKinds) => cumul_deviations' = cumul_deviations]_vars

\* The batch returned rows of an earlier flight after the second hole of a
\* later flight raised a caught failure, its first hole being recorded.
C10_Witness ==
    /\ pc = "done"
    /\ result.rows # << >>
    /\ locals.kind = "raise"
    /\ locals.hole = 2
    /\ locals.flight \in Failed
    /\ \E n \in 1..Len(result.rows) : result.rows[n].flight_id < locals.flight

====
